---------------------------- MODULE Spec2Model ----------------------------
(* A model of the spreadsheet formula engine of src/script.js and of its   *)
(* variant src/unnamed/part_000: the cell store, the blur handler          *)
(* evaluateFormula, evaluateExpression, evaluateFunction, sumRange,        *)
(* updateDependentCells and the refresh button.                            *)
(*                                                                         *)
(* Text is modelled as a sequence of one-character strings, so that the    *)
(* regular expressions, String.replace, String.includes and eval of the    *)
(* source are computed and not assumed.                                    *)
EXTENDS Integers, Sequences, FiniteSets, TLC

(***************************************************************************)
(* Characters and text                                                     *)
(***************************************************************************)
UpperSeq == << "A","B","C","D","E","F","G","H","I","J","K","L","M",
               "N","O","P","Q","R","S","T","U","V","W","X","Y","Z" >>

LowerSeq == << "a","b","c","d","e","f","g","h","i","j","k","l","m",
               "n","o","p","q","r","s","t","u","v","w","x","y","z" >>

DigitSeq == << "0","1","2","3","4","5","6","7","8","9" >>

SeqRange(s) == { s[i] : i \in 1..Len(s) }

Upper == SeqRange(UpperSeq)

Lower == SeqRange(LowerSeq)

Digit == SeqRange(DigitSeq)

Space == { " " }

SetMin(S) == CHOOSE x \in S : \A y \in S : x <= y

PosIn(s, c) == SetMin({ i \in 1..Len(s) : s[i] = c })

\* String.fromCharCode(65 + k), k in 0..25
FromCharCode(k) == UpperSeq[k + 1]

\* "X".charCodeAt(0) - 65 for an upper-case letter
CharCode(c) == PosIn(UpperSeq, c) - 1

\* String.prototype.toUpperCase on the modelled alphabet
toUpperCase(s) ==
  [ i \in 1..Len(s) |-> IF s[i] \in Lower THEN UpperSeq[PosIn(LowerSeq, s[i])] ELSE s[i] ]

\* String.prototype.trim: leading and trailing white space removed
trim(s) ==
  LET keep == { i \in 1..Len(s) : s[i] \notin Space }
  IN  IF keep = {} THEN << >>
      ELSE SubSeq(s, SetMin(keep), CHOOSE x \in keep : \A y \in keep : y <= x)

\* String.prototype.startsWith
startsWith(s, p) == Len(p) <= Len(s) /\ SubSeq(s, 1, Len(p)) = p

\* String.prototype.substring(k), k the 0-based index of the first kept character
substring(s, k) == SubSeq(s, k + 1, Len(s))

OccursAt(s, sub, i) ==
  /\ i >= 1
  /\ i + Len(sub) - 1 <= Len(s)
  /\ SubSeq(s, i, i + Len(sub) - 1) = sub

RECURSIVE IndexFrom(_, _, _)
IndexFrom(s, sub, i) ==
  IF i + Len(sub) - 1 > Len(s) THEN 0
  ELSE IF OccursAt(s, sub, i) THEN i
  ELSE IndexFrom(s, sub, i + 1)

\* 1-based position of the first occurrence of sub in s, 0 when there is none
IndexOf(s, sub) == IndexFrom(s, sub, 1)

\* String.prototype.includes
includes(s, sub) == IndexOf(s, sub) # 0

\* String.prototype.replace(sub, rep) with a string pattern: the first
\* occurrence only
replace(s, sub, rep) ==
  LET i == IndexOf(s, sub)
  IN  IF i = 0 THEN s
      ELSE SubSeq(s, 1, i - 1) \o rep \o SubSeq(s, i + Len(sub), Len(s))

\* Last index of the longest run of characters of class C starting at i
\* (i - 1 when s[i] is not in C)
RECURSIVE RunEnd(_, _, _)
RunEnd(s, i, C) ==
  IF i >= 1 /\ i <= Len(s) /\ s[i] \in C THEN RunEnd(s, i + 1, C) ELSE i - 1

CharAt(s, i) == IF i >= 1 /\ i <= Len(s) THEN s[i] ELSE ""

(***************************************************************************)
(* Numbers and their text                                                  *)
(***************************************************************************)
DigitVal(c) == PosIn(DigitSeq, c) - 1

RECURSIVE ParseDigits(_)
ParseDigits(ds) ==
  IF ds = << >> THEN 0
  ELSE 10 * ParseDigits(SubSeq(ds, 1, Len(ds) - 1)) + DigitVal(ds[Len(ds)])

RECURSIVE NatToStr(_)
NatToStr(n) ==
  IF n < 10 THEN << DigitSeq[n + 1] >>
  ELSE NatToStr(n \div 10) \o << DigitSeq[(n % 10) + 1] >>

\* Number.prototype.toString for an integer
IntToStr(n) == IF n < 0 THEN << "-" >> \o NatToStr(0 - n) ELSE NatToStr(n)


(***************************************************************************)
(* JavaScript values: a number (an integer here), NaN, undefined, a string *)
(* (text), and "unmodelled" for a value whose computation lies outside the *)
(* fragment of JavaScript modelled below (fractions, infinities, exponent  *)
(* and octal literals, parentheses, comments, regular expressions).        *)
(***************************************************************************)
Num(n) == [k |-> "num", n |-> n, s |-> << >>]

Str(s) == [k |-> "str", n |-> 0, s |-> s]

NaN == [k |-> "nan", n |-> 0, s |-> << >>]

Undefined == [k |-> "undefined", n |-> 0, s |-> << >>]

Unmodelled == [k |-> "unmodelled", n |-> 0, s |-> << >>]

\* Thrown by eval: a SyntaxError or a ReferenceError
Thrown == [k |-> "thrown", n |-> 0, s |-> << >>]

EmptyText == << >>

NA == << "N", "/", "A" >>

\* String(v): what String.replace and innerText make of a value
JsString(v) ==
  CASE v.k = "num" -> IntToStr(v.n)
    [] v.k = "str" -> v.s
    [] v.k = "nan" -> << "N", "a", "N" >>
    [] v.k = "undefined" -> << "u","n","d","e","f","i","n","e","d" >>
    [] OTHER -> << "?" >>

\* parseFloat(v): the text of v, leading white space skipped, an optional
\* sign, then the longest run of digits; NaN when there is no digit
parseFloat(v) ==
  LET s    == JsString(v)
      i    == RunEnd(s, 1, Space) + 1
      neg  == CharAt(s, i) = "-"
      j    == IF CharAt(s, i) \in {"+", "-"} THEN i + 1 ELSE i
      e    == RunEnd(s, j, Digit)
  IN  IF v.k = "unmodelled" \/ CharAt(s, e + 1) \in {".", "e", "E"} THEN Unmodelled
      ELSE IF e < j THEN NaN
      ELSE Num(IF neg THEN 0 - ParseDigits(SubSeq(s, j, e)) ELSE ParseDigits(SubSeq(s, j, e)))

\* ToNumber of a value eval can produce
ToNumber(v) == IF v.k = "undefined" THEN NaN ELSE v

\* isNaN(v) for a value eval can produce
isNaN(v) == ToNumber(v).k = "nan"

Dominant(a, b, k) == a.k = k \/ b.k = k

\* A sum that joins the digits of its operands, as + does on two strings
ArithConcatenating(op, x, y) ==
  IF op = "+" /\ x.k = "num" /\ y.k = "num" /\ x.n >= 0 /\ y.n >= 0
    THEN Num(ParseDigits(NatToStr(x.n) \o NatToStr(y.n)))
    ELSE NaN

\* a + b, a - b, a * b, a / b on numbers (neither operand is a string here)
Arith(op, x, y) ==
  LET a == ToNumber(x)
      b == ToNumber(y)
  IN  IF Dominant(a, b, "unmodelled") THEN Unmodelled
      ELSE IF Dominant(a, b, "thrown") THEN Thrown
      ELSE IF Dominant(a, b, "nan") THEN NaN
      ELSE CASE op = "+" -> Num(a.n + b.n)
             [] op = "-" -> Num(a.n - b.n)
             [] op = "*" -> Num(a.n * b.n)
             [] op = "/" ->
                  IF b.n = 0 THEN (IF a.n = 0 THEN NaN ELSE Unmodelled)
                  ELSE LET p == IF a.n < 0 THEN 0 - a.n ELSE a.n
                           q == IF b.n < 0 THEN 0 - b.n ELSE b.n
                       IN  IF p % q # 0 THEN Unmodelled
                           ELSE IF (a.n < 0) = (b.n < 0) THEN Num(p \div q)
                           ELSE Num(0 - (p \div q))

Negate(x) ==
  LET a == ToNumber(x)
  IN  IF a.k = "num" THEN Num(0 - a.n) ELSE a

(***************************************************************************)
(* eval(expression): the host's evaluation of the substituted text.        *)
(* Modelled for numeric literals, identifiers, unary and binary + - * /.   *)
(***************************************************************************)
Letter == Upper \cup Lower

NumTok(n) == [t |-> "num", n |-> n, s |-> << >>]

IdTok(s) == [t |-> "id", n |-> 0, s |-> s]

OpTok(c) == [t |-> "op", n |-> 0, s |-> << c >>]

\* a token that makes the text a SyntaxError
BadTok == [t |-> "bad", n |-> 0, s |-> << >>]

\* a token outside the modelled fragment
OddTok == [t |-> "odd", n |-> 0, s |-> << >>]

RECURSIVE Tokenize(_, _)
Tokenize(s, i) ==
  IF i > Len(s) THEN << >>
  ELSE LET c == s[i]
       IN  CASE c \in Space -> Tokenize(s, i + 1)
             [] c \in Digit ->
                  LET e == RunEnd(s, i, Digit)
                  IN  IF CharAt(s, e + 1) \in {"E","e","n","x","X","b","B","o","O","."}
                         \/ (e > i /\ c = "0")
                        THEN << OddTok >>
                      ELSE IF CharAt(s, e + 1) \in Letter THEN << BadTok >>
                      ELSE << NumTok(ParseDigits(SubSeq(s, i, e))) >> \o Tokenize(s, e + 1)
             [] c \in Letter ->
                  LET e == RunEnd(s, i, Letter \cup Digit)
                  IN  << IdTok(SubSeq(s, i, e)) >> \o Tokenize(s, e + 1)
             [] c \in {"+", "-"} ->
                  IF CharAt(s, i + 1) = c
                    THEN << [t |-> "incdec", n |-> 0, s |-> << c, c >>] >> \o Tokenize(s, i + 2)
                    ELSE << OpTok(c) >> \o Tokenize(s, i + 1)
             [] c = "*" ->
                  IF CharAt(s, i + 1) = "*" THEN << OddTok >>
                  ELSE << OpTok(c) >> \o Tokenize(s, i + 1)
             [] c = "/" ->
                  IF CharAt(s, i + 1) \in {"/", "*"} THEN << OddTok >>
                  ELSE << OpTok(c) >> \o Tokenize(s, i + 1)
             [] OTHER -> << OddTok >>

\* Identifiers the page binds: undefined and NaN of the language, the
\* upper-case constants of the script (script.js lines 2-3) and the ids of the
\* grid's divs; every other identifier is taken to be unbound in the page, and
\* reading it is a ReferenceError.
ROWS == 100

COLUMNS == 100

Resolve(id) ==
  CASE id = << "u","n","d","e","f","i","n","e","d" >> -> Undefined
    [] id = << "N","a","N" >> -> NaN
    [] id = << "R","O","W","S" >> -> Num(ROWS)
    [] id = << "C","O","L","U","M","N","S" >> -> Num(COLUMNS)
    \* letters then digits name a div of the grid (window[id]): an element
    [] RunEnd(id, 1, Upper) >= 1 /\ RunEnd(id, 1, Upper) < Len(id)
         /\ RunEnd(id, RunEnd(id, 1, Upper) + 1, Digit) = Len(id) -> Unmodelled
    [] OTHER -> Thrown

Fail == [ok |-> FALSE, v |-> Thrown, rest |-> << >>]

Parsed(v, rest) == [ok |-> TRUE, v |-> v, rest |-> rest]

IsOp(tok, ops) == tok.t = "op" /\ tok.s[1] \in ops

\* UnaryExpression: sign* operand
RECURSIVE ParseUnary(_)
ParseUnary(toks) ==
  IF toks = << >> THEN Fail
  ELSE LET h == Head(toks)
       IN  CASE h.t = "num" -> Parsed(Num(h.n), Tail(toks))
             [] h.t = "id" -> Parsed(Resolve(h.s), Tail(toks))
             [] IsOp(h, {"+", "-"}) ->
                  LET r == ParseUnary(Tail(toks))
                  IN  IF ~r.ok THEN Fail
                      ELSE Parsed(IF h.s[1] = "-" THEN Negate(r.v) ELSE ToNumber(r.v), r.rest)
             [] OTHER -> Fail

\* MultiplicativeExpression, left to right
RECURSIVE ParseTermRest(_, _)
ParseTermRest(acc, toks) ==
  IF toks # << >> /\ IsOp(Head(toks), {"*", "/"})
    THEN LET r == ParseUnary(Tail(toks))
         IN  IF ~r.ok THEN Fail
             ELSE ParseTermRest(Arith(Head(toks).s[1], acc, r.v), r.rest)
    ELSE Parsed(acc, toks)

ParseTerm(toks) ==
  LET r == ParseUnary(toks)
  IN  IF ~r.ok THEN Fail ELSE ParseTermRest(r.v, r.rest)

\* AdditiveExpression, left to right
RECURSIVE ParseExprRest(_, _)
ParseExprRest(acc, toks) ==
  IF toks # << >> /\ IsOp(Head(toks), {"+", "-"})
    THEN LET r == ParseTerm(Tail(toks))
         IN  IF ~r.ok THEN Fail
             ELSE ParseExprRest(Arith(Head(toks).s[1], acc, r.v), r.rest)
    ELSE Parsed(acc, toks)

ParseExpr(toks) ==
  LET r == ParseTerm(toks)
  IN  IF ~r.ok THEN Fail ELSE ParseExprRest(r.v, r.rest)

HasTok(toks, t) == \E i \in 1..Len(toks) : toks[i].t = t

\* The value of a program that parsed to r: all of it must have been read
Completed(r) == IF r.ok /\ r.rest = << >> THEN r.v ELSE Thrown

\* The value of the program whose tokens are toks
EvalTokens(toks) ==
  IF HasTok(toks, "odd") THEN Unmodelled
  ELSE IF HasTok(toks, "bad") THEN Thrown
  ELSE IF HasTok(toks, "incdec")
         \* ++ and -- need a reference operand: with literals only, a SyntaxError
         THEN (IF HasTok(toks, "id") THEN Unmodelled ELSE Thrown)
  ELSE IF toks = << >> THEN Undefined
  ELSE IF IsOp(Head(toks), {"/"}) THEN Unmodelled
  ELSE Completed(ParseExpr(toks))

\* eval(text): a number, NaN, undefined (the empty program), Thrown, or
\* Unmodelled
eval(text) == EvalTokens(Tokenize(text, 1))


(***************************************************************************)
(* Cell addresses                                                          *)
(***************************************************************************)
\* The inner loop of getColumnHeaders: one letter per turn, most significant
\* last
RECURSIVE HeaderLoop(_, _)
HeaderLoop(quotient, header) ==
  IF quotient >= 0
    THEN HeaderLoop((quotient \div 26) - 1, << FromCharCode(quotient % 26) >> \o header)
    ELSE header

getColumnHeaders(count) == [ columnCount \in 1..count |-> HeaderLoop(columnCount - 1, << >>) ]

columnHeaders == getColumnHeaders(COLUMNS)

\* cellId.match(/[A-Z]+/)[0] and parseInt(cellId.match(/\d+/)[0])
parseCellId(cellId) ==
  LET i == SetMin({ j \in 1..Len(cellId) : cellId[j] \in Upper })
      d == SetMin({ j \in 1..Len(cellId) : cellId[j] \in Digit })
  IN  [ col |-> SubSeq(cellId, i, RunEnd(cellId, i, Upper)),
        row |-> ParseDigits(SubSeq(cellId, d, RunEnd(cellId, d, Digit))) ]

\* col + row: a string followed by the decimal text of a number
CellId(col, row) == col \o IntToStr(row)

(***************************************************************************)
(* Regular expressions of evaluateExpression and evaluateFunction.  Each   *)
(* matcher gives the last index of the match that starts at i, 0 for no    *)
(* match; a class followed by a character outside it matches its longest   *)
(* run only, so greedy matching needs no backtracking here.                *)
(***************************************************************************)
\* /[A-Z]+\d+/ at i
MatchRefAt(s, i) ==
  LET l == RunEnd(s, i, Upper)
      d == RunEnd(s, l + 1, Digit)
  IN  IF l >= i /\ d >= l + 1 THEN d ELSE 0

\* expression.match(/[A-Z]+\d+/g) || []: every match, left to right
RECURSIVE MatchAllRefs(_, _)
MatchAllRefs(s, i) ==
  IF i > Len(s) THEN << >>
  ELSE LET e == MatchRefAt(s, i)
       IN  IF e > 0 THEN << SubSeq(s, i, e) >> \o MatchAllRefs(s, e + 1)
           ELSE MatchAllRefs(s, i + 1)

\* /[A-Z]+\d+:[A-Z]+\d+/ at i
MatchRangeAt(s, i) ==
  LET a == MatchRefAt(s, i)
  IN  IF a > 0 /\ CharAt(s, a + 1) = ":" THEN MatchRefAt(s, a + 2) ELSE 0

\* /([A-Z]+)\([A-Z]+\d+:[A-Z]+\d+\)/ at i
MatchFunctionAt(s, i) ==
  LET l == RunEnd(s, i, Upper)
      r == IF l >= i /\ CharAt(s, l + 1) = "(" THEN MatchRangeAt(s, l + 2) ELSE 0
  IN  IF r > 0 /\ CharAt(s, r + 1) = ")" THEN r + 1 ELSE 0

\* The first (leftmost) match as [from, to], from = 0 when none:
\* expression.match(functionRegex)
RECURSIVE FirstFunctionMatchFrom(_, _)
FirstFunctionMatchFrom(s, i) ==
  IF i > Len(s) THEN [from |-> 0, to |-> 0]
  ELSE LET e == MatchFunctionAt(s, i)
       IN  IF e > 0 THEN [from |-> i, to |-> e] ELSE FirstFunctionMatchFrom(s, i + 1)

FirstFunctionMatch(s) == FirstFunctionMatchFrom(s, 1)

\* functionExpression.match(rangeRegex)
RECURSIVE FirstRangeMatchFrom(_, _)
FirstRangeMatchFrom(s, i) ==
  IF i > Len(s) THEN [from |-> 0, to |-> 0]
  ELSE LET e == MatchRangeAt(s, i)
       IN  IF e > 0 THEN [from |-> i, to |-> e] ELSE FirstRangeMatchFrom(s, i + 1)

FirstRangeMatch(s) == FirstRangeMatchFrom(s, 1)

\* s.split(sep)[0] and s.split(sep)[1] for a one-character separator
SplitHead(s, sep) ==
  LET i == IndexOf(s, << sep >>)
  IN  IF i = 0 THEN s ELSE SubSeq(s, 1, i - 1)

SplitSecond(s, sep) ==
  LET i == IndexOf(s, << sep >>)
      r == SubSeq(s, i + 1, Len(s))
  IN  SplitHead(r, sep)

(***************************************************************************)
(* The cell store: the object cells, as its records in key order (the      *)
(* order of Object.keys: first insertion).  A property a record does not   *)
(* have reads as undefined: NoProperty.                                    *)
(***************************************************************************)
NoProperty == << "undefined" >>

Record(id, formula, value) ==
  [id |-> id, formula |-> formula, updatedFormula |-> NoProperty, value |-> value]

Has(cs, id) == \E i \in 1..Len(cs) : cs[i].id = id

Get(cs, id) == cs[CHOOSE i \in 1..Len(cs) : cs[i].id = id]

\* cells[id] = rec: an existing key keeps its place, a new one goes last
Put(cs, rec) ==
  IF Has(cs, rec.id)
    THEN [ i \in 1..Len(cs) |-> IF cs[i].id = rec.id THEN rec ELSE cs[i] ]
    ELSE Append(cs, rec)

\* (cells[cellId] || 0).value
ValueOf(cs, cellId) == IF Has(cs, cellId) THEN Get(cs, cellId).value ELSE Undefined

(***************************************************************************)
(* sumRange, evaluateFunction, evaluateExpression                          *)
(***************************************************************************)
SUPPORTED_FUNCTIONS == { << "S", "U", "M" >> }

\* sumRange with its row loop stopping one row early (row < endRow)
sumRangeIdsShortRows(startCol, startRow, endCol, endRow) ==
  LET c1 == CharCode(startCol[1])
      c2 == CharCode(endCol[1])
      nC == IF c2 >= c1 THEN c2 - c1 + 1 ELSE 0
      nR == IF endRow > startRow THEN endRow - startRow ELSE 0
  IN  [ k \in 1..(nR * nC) |->
          CellId(<< FromCharCode(c1 + ((k - 1) % nC)) >>, startRow + ((k - 1) \div nC)) ]

\* The cell ids sumRange reads, in the order of its two loops
sumRangeIds(startCol, startRow, endCol, endRow) ==
  LET c1 == CharCode(startCol[1])
      c2 == CharCode(endCol[1])
      nC == IF c2 >= c1 THEN c2 - c1 + 1 ELSE 0
      nR == IF endRow >= startRow THEN endRow - startRow + 1 ELSE 0
  IN  [ k \in 1..(nR * nC) |->
          CellId(<< FromCharCode(c1 + ((k - 1) % nC)) >>, startRow + ((k - 1) \div nC)) ]

RECURSIVE SumOver(_, _, _)
SumOver(cs, ids, sum) ==
  IF ids = << >> THEN sum
  ELSE SumOver(cs, Tail(ids), Arith("+", sum, parseFloat(ValueOf(cs, Head(ids)))))

sumRange(cs, startCol, startRow, endCol, endRow) ==
  SumOver(cs, sumRangeIds(startCol, startRow, endCol, endRow), Num(0))

\* The range of a function call: its two corner cells, parsed
RangeOf(functionExpression) ==
  LET m         == FirstRangeMatch(functionExpression)
      range     == SubSeq(functionExpression, m.from, m.to)
      startCell == parseCellId(SplitHead(range, ":"))
      endCell   == parseCellId(SplitSecond(range, ":"))
  IN  [ startCol |-> startCell.col, startRow |-> startCell.row,
        endCol |-> endCell.col, endRow |-> endCell.row ]

evaluateFunction(cs, functionExpression, functionName) ==
  LET r == RangeOf(functionExpression)
  IN  IF functionName \in SUPPORTED_FUNCTIONS
        THEN sumRange(cs, r.startCol, r.startRow, r.endCol, r.endRow)
        ELSE Str(EmptyText)

\* The forEach over cellReferences: each reference in turn replaces its first
\* occurrence in the expression by the text of the referenced value
RECURSIVE SubstituteRefs(_, _, _)
SubstituteRefs(cs, expression, cellReferences) ==
  IF cellReferences = << >> THEN expression
  ELSE LET cellReference == Head(cellReferences)
           ref    == parseCellId(cellReference)
           cellId == CellId(ref.col, ref.row)
       IN  SubstituteRefs(cs,
                          replace(expression, cellReference, JsString(ValueOf(cs, cellId))),
                          Tail(cellReferences))

\* try { result = eval(expression); isNaN(result) ? "" : result } catch "N/A"
Outcome(result) ==
  CASE result.k = "thrown" -> Str(NA)
    [] result.k = "unmodelled" -> Unmodelled
    [] isNaN(result) -> Str(EmptyText)
    [] OTHER -> result

TryEval(expression) == Outcome(eval(expression))

\* functionMatch.split("(")[0].replace("=", "")
FunctionNameOf(functionMatch) == replace(SplitHead(functionMatch, "("), << "=" >>, << >>)

\* An unknown function returning the empty text, as evaluateFunction does
UnknownFunctionEmpty == Str(EmptyText)

\* What evaluateExpression returns for a function that is not supported
UnknownFunctionResult == Str(NA)

\* The cell ids evaluateExpression looks up in the store for an expression
ReadsOf(expression) ==
  LET m == FirstFunctionMatch(expression)
  IN  IF m.from > 0
        THEN LET functionMatch == SubSeq(expression, m.from, m.to)
                 r == RangeOf(functionMatch)
             IN  IF FunctionNameOf(functionMatch) \in SUPPORTED_FUNCTIONS
                   THEN SeqRange(sumRangeIds(r.startCol, r.startRow, r.endCol, r.endRow))
                   ELSE { }
        ELSE { CellId(parseCellId(ref).col, parseCellId(ref).row) :
                 ref \in SeqRange(MatchAllRefs(expression, 1)) }

\* The branch of evaluateExpression for an expression in which functionRegex
\* matched functionMatch
EvaluateCall(cs, expression, functionMatch) ==
  IF FunctionNameOf(functionMatch) \in SUPPORTED_FUNCTIONS
    THEN TryEval(replace(expression, functionMatch,
                         JsString(evaluateFunction(cs, functionMatch,
                                                   FunctionNameOf(functionMatch)))))
    ELSE UnknownFunctionResult

\* evaluateExpression, m being the first match of functionRegex
EvaluateMatched(cs, expression, m) ==
  IF m.from > 0
    THEN EvaluateCall(cs, expression, SubSeq(expression, m.from, m.to))
    ELSE TryEval(SubstituteRefs(cs, expression, MatchAllRefs(expression, 1)))

evaluateExpression(cs, expression) ==
  EvaluateMatched(cs, expression, FirstFunctionMatch(expression))

(***************************************************************************)
(* State                                                                   *)
(***************************************************************************)
VARIABLES
  cells,      \* the object cells: its records, in key order
  display,    \* innerText of the editable divs
  last,       \* what the most recent handler run was given and did (history)
  steps,      \* number of handler runs so far
  headerRun,  \* the call of getColumnHeaders: its locals and its position
  other       \* a second page, fed the same edits in another order

vars == << cells, display, last, steps, headerRun, other >>

\* The variables of the page's handlers
page == << cells, display, last, steps >>

\* The divs edited in the model, and the texts typed into them
A1 == << "A", "1" >>

A2 == << "A", "2" >>

A3 == << "A", "3" >>

Addrs == { A1, A2, A3 }

\* Handler runs explored from the page load, per specification
MaxSteps == 4

MaxFnSteps == 3

MaxPartSteps == 3

NoRun ==
  [ op |-> "load", addr |-> << >>, raw |-> << >>, pre |-> << >>, shown |-> << >>,
    ret |-> Undefined, pass |-> << >>, fault |-> FALSE, repeat |-> FALSE ]

\* getColumnHeaders(count) about to run: lines 15-17
HeaderStart(count) ==
  [ pc |-> "outer", count |-> count, columnCount |-> 1, header |-> << >>, quotient |-> 0,
    columnHeaders |-> << >> ]

\* getColumnHeaders(count) after its return
HeaderDone(count) ==
  [ pc |-> "returned", count |-> count, columnCount |-> count + 1,
    header |-> IF count >= 1 THEN getColumnHeaders(count)[count] ELSE << >>,
    quotient |-> -1, columnHeaders |-> getColumnHeaders(count) ]

\* The second page before any edit; owed: the edit each page has yet to make
\* to have made the same edits as the other; created: the cells the two pages
\* created last in different orders
NothingOwed == << >>

OtherStart(addrs) ==
  [ cells |-> << >>, display |-> [ a \in addrs |-> EmptyText ], owed |-> NothingOwed,
    step |-> "load", created |-> { } ]

\* The page after its load: the labels generated, no cell edited
Init ==
  /\ cells = << >>
  /\ display = [ a \in Addrs |-> EmptyText ]
  /\ last = NoRun
  /\ steps = 0
  /\ headerRun = HeaderDone(COLUMNS)
  /\ other = OtherStart(Addrs)

(***************************************************************************)
(* updateDependentCells                                                    *)
(***************************************************************************)
\* A dependency test that looks only at the first operand of the formula
IsDependentFirstOperand(formula, updatedCellId) ==
  startsWith(substring(formula, 1), updatedCellId)

\* A dependency test that takes every stored formula for a dependent
IsDependentAlways(formula, updatedCellId) == formula # EmptyText

\* A dependency test on the column letter of the edited cell alone
IsDependentOnColumn(formula, updatedCellId) == includes(formula, << updatedCellId[1] >>)

\* A dependency test on the references of the formula, each taken whole
IsDependentByReference(formula, updatedCellId) ==
  updatedCellId \in SeqRange(MatchAllRefs(formula, 1))

\* formula.includes(updatedCellId)
IsDependent(formula, updatedCellId) == includes(formula, updatedCellId)

\* A pass that goes on to the cells that depend on the cell it re-evaluated
ReevaluatedCascading(st, rec, evaluatedValue) ==
  LET written    == Put(st.cells, Record(rec.id, rec.formula, evaluatedValue))
      dependents == SelectSeq(written, LAMBDA r : IsDependent(r.formula, rec.id))
  IN  [ cells   |-> written,
        display |-> [st.display EXCEPT ![rec.id] = JsString(evaluatedValue)],
        pass    |-> Append(st.pass, rec.id) \o [ i \in 1..Len(dependents) |-> dependents[i].id ],
        fault   |-> FALSE ]

\* The body of the if: the record and the div of a dependent cell overwritten
Reevaluated(st, rec, evaluatedValue) ==
  [ cells   |-> Put(st.cells, Record(rec.id, rec.formula, evaluatedValue)),
    display |-> [st.display EXCEPT ![rec.id] = JsString(evaluatedValue)],
    pass    |-> Append(st.pass, rec.id),
    fault   |-> FALSE ]

\* One turn of the forEach over Object.keys(cells), then the turns after it.
\* st: the store and the displayed texts so far, the cells re-evaluated so
\* far, and whether a TypeError was thrown (reading .includes of undefined),
\* which ends the loop and the handler.
RECURSIVE UpdateFrom(_, _, _)
UpdateFrom(st, updatedCellId, k) ==
  IF k > Len(st.cells) \/ st.fault THEN st
  ELSE LET rec == st.cells[k]
       IN  IF rec.formula = NoProperty THEN [st EXCEPT !.fault = TRUE]
           ELSE IF IsDependent(rec.formula, updatedCellId)
             THEN UpdateFrom(Reevaluated(st, rec, evaluateExpression(st.cells, substring(rec.formula, 1))),
                             updatedCellId, k + 1)
             ELSE UpdateFrom(st, updatedCellId, k + 1)

updateDependentCells(cs, disp, updatedCellId) ==
  UpdateFrom([cells |-> cs, display |-> disp, pass |-> << >>, fault |-> FALSE],
             updatedCellId, 1)

(***************************************************************************)
(* evaluateFormula: the blur handler of a div, script.js                   *)
(***************************************************************************)
\* const formula = cell.innerText.trim().toUpperCase()
EnteredText(innerText) == toUpperCase(trim(innerText))

\* The record committed for the edited cell, before propagation
Committed(cs, cellId, innerText) ==
  LET formula == EnteredText(innerText)
  IN  IF startsWith(formula, << "=" >>)
        THEN Record(cellId, formula, evaluateExpression(cs, substring(formula, 1)))
        ELSE Record(cellId, EmptyText, Str(formula))

Finish(cellId, innerText, rec) ==
  LET typed == [display EXCEPT ![cellId] = innerText]
      shown == IF rec.formula # EmptyText
                 THEN [typed EXCEPT ![cellId] = JsString(rec.value)]
                 ELSE typed
  IN  \E out \in { updateDependentCells(Put(cells, rec), shown, cellId) } :
        /\ cells' = out.cells
        /\ display' = out.display
        /\ last' = [ op |-> "edit", addr |-> cellId, raw |-> innerText, pre |-> cells,
                     shown |-> display, ret |-> rec.value, pass |-> out.pass,
                     fault |-> out.fault,
                     repeat |-> (last.op = "edit" /\ last.addr = cellId /\ last.raw = innerText) ]
        /\ steps' = steps + 1

evaluateFormula(cellId, innerText) ==
  \E rec \in { Committed(cells, cellId, innerText) } : Finish(cellId, innerText, rec)

(***************************************************************************)
(* evaluateFormula of src/unnamed/part_000: the text is upper-cased only   *)
(* when it is a formula, and a formula's record is written with the        *)
(* property updatedFormula, so that it has no property formula.            *)
(***************************************************************************)
CommittedPart(cs, cellId, innerText) ==
  LET formula == trim(innerText)
  IN  IF startsWith(formula, << "=" >>)
        THEN LET updatedFormula == toUpperCase(formula)
             IN  [ id |-> cellId, formula |-> NoProperty, updatedFormula |-> updatedFormula,
                   value |-> evaluateExpression(cs, substring(updatedFormula, 1)) ]
        ELSE Record(cellId, EmptyText, Str(formula))

evaluateFormulaPart(cellId, innerText) ==
  \E rec \in { CommittedPart(cells, cellId, innerText) } : Finish(cellId, innerText, rec)

(***************************************************************************)
(* refreshGrid: the click handler of the refresh button                    *)
(***************************************************************************)
refreshGrid ==
  /\ display' = [ a \in DOMAIN display |-> EmptyText ]
  /\ last' = [NoRun EXCEPT !.op = "refresh", !.pre = cells, !.shown = display]
  /\ steps' = steps + 1
  /\ UNCHANGED cells

\* refreshSheet of src/unnamed/part_000
refreshSheet ==
  /\ display' = [ a \in DOMAIN display |-> EmptyText ]
  /\ last' = [NoRun EXCEPT !.op = "refresh", !.pre = cells, !.shown = display]
  /\ steps' = steps + 1
  /\ UNCHANGED cells

(***************************************************************************)
(* getColumnHeaders, one step per loop test: the outer loop over           *)
(* columnCount and the inner loop over quotient                            *)
(***************************************************************************)
\* A positional base-26 step: the quotient carried on as it is
NextQuotientPositional(quotient) == IF quotient < 26 THEN -1 ELSE quotient \div 26

\* quotient = Math.floor(quotient / 26) - 1
NextQuotient(quotient) == (quotient \div 26) - 1

\* while (columnCount <= count) holds: header = "", quotient = columnCount - 1
HeaderBegin ==
  /\ headerRun.pc = "outer"
  /\ headerRun.columnCount <= headerRun.count
  /\ headerRun' = [headerRun EXCEPT !.pc = "inner", !.header = << >>,
                                    !.quotient = headerRun.columnCount - 1]
  /\ UNCHANGED << page, other >>

\* while (quotient >= 0) holds: one letter is put in front of header
HeaderLetter ==
  /\ headerRun.pc = "inner"
  /\ headerRun.quotient >= 0
  /\ LET remainder == headerRun.quotient % 26
     IN  headerRun' = [headerRun EXCEPT !.header = << FromCharCode(remainder) >> \o headerRun.header,
                                        !.quotient = NextQuotient(headerRun.quotient)]
  /\ UNCHANGED << page, other >>

\* while (quotient >= 0) fails: columnHeaders.push(header), columnCount++
HeaderPush ==
  /\ headerRun.pc = "inner"
  /\ headerRun.quotient < 0
  /\ headerRun' = [headerRun EXCEPT !.pc = "outer",
                                    !.columnHeaders = Append(headerRun.columnHeaders, headerRun.header),
                                    !.columnCount = headerRun.columnCount + 1]
  /\ UNCHANGED << page, other >>

\* while (columnCount <= count) fails: return columnHeaders
HeaderReturn ==
  /\ headerRun.pc = "outer"
  /\ headerRun.columnCount > headerRun.count
  /\ headerRun' = [headerRun EXCEPT !.pc = "returned"]
  /\ UNCHANGED << page, other >>

\* Counts getColumnHeaders is called with
MaxCount == 104

InitHeaders ==
  /\ cells = << >>
  /\ display = [ a \in Addrs |-> EmptyText ]
  /\ last = NoRun
  /\ steps = 0
  /\ other = OtherStart(Addrs)
  /\ \E count \in 1..MaxCount : headerRun = HeaderStart(count)

NextHeaders == HeaderBegin \/ HeaderLetter \/ HeaderPush \/ HeaderReturn

SpecHeaders == InitHeaders /\ [][NextHeaders]_vars

(***************************************************************************)
(* Texts typed in the model                                                *)
(***************************************************************************)
Lit1 == << "1" >>

Lit2 == << "2" >>

LitWord == << "a", "b" >>

LitPadded == << " ", "2" >>

FA1plusA2 == << "=", "A", "1", "+", "A", "2" >>

FA1plus1 == << "=", "A", "1", "+", "1" >>

FA2plus1 == << "=", "A", "2", "+", "1" >>

FZ99plus1 == << "=", "Z", "9", "9", "+", "1" >>

FSumA1A2 == << "=", "S", "U", "M", "(", "A", "1", ":", "A", "2", ")" >>

FSumA2A1 == << "=", "S", "U", "M", "(", "A", "2", ":", "A", "1", ")" >>

FSumAA1AB1 == << "=", "S", "U", "M", "(", "A", "A", "1", ":", "A", "B", "1", ")" >>

FFooA1A2 == << "=", "F", "O", "O", "(", "A", "1", ":", "A", "2", ")" >>

\* Literals and the formulas that add cells
Texts == { Lit1, Lit2, FA1plusA2, FA1plus1, FA2plus1 }

\* Literals, range functions and a reference to a cell never committed
FnTexts == { Lit1, LitWord, LitPadded, FSumA1A2, FSumA2A1, FSumAA1AB1, FFooA1A2, FZ99plus1 }

(***************************************************************************)
(* Specifications                                                          *)
(***************************************************************************)
\* script.js: a div loses focus with one of Texts in it
Edit ==
  /\ steps < MaxSteps
  /\ \E cellId \in Addrs, innerText \in Texts : evaluateFormula(cellId, innerText)
  /\ UNCHANGED << headerRun, other >>

\* script.js: the refresh button is clicked
Refresh ==
  /\ steps < MaxSteps
  /\ refreshGrid
  /\ UNCHANGED << headerRun, other >>

Next == Edit \/ Refresh

Spec == Init /\ [][Next]_vars

\* script.js: a div loses focus with one of FnTexts in it
EditFn ==
  /\ steps < MaxFnSteps
  /\ \E cellId \in Addrs, innerText \in FnTexts : evaluateFormula(cellId, innerText)
  /\ UNCHANGED << headerRun, other >>

NextFn == EditFn

SpecFn == Init /\ [][NextFn]_vars

\* src/unnamed/part_000: a div loses focus with one of Texts in it
EditPart ==
  /\ steps < MaxPartSteps
  /\ \E cellId \in Addrs, innerText \in Texts : evaluateFormulaPart(cellId, innerText)
  /\ UNCHANGED << headerRun, other >>

\* src/unnamed/part_000: the refresh button is clicked
RefreshPart ==
  /\ steps < MaxPartSteps
  /\ refreshSheet
  /\ UNCHANGED << headerRun, other >>

NextPart == EditPart \/ RefreshPart

SpecPart == Init /\ [][NextPart]_vars

(***************************************************************************)
(* script.js with cells whose labels contain the label A1                  *)
(***************************************************************************)
A10 == << "A", "1", "0" >>

AA1 == << "A", "A", "1" >>

SubAddrs == { A1, A2, A10, AA1 }

FA10plus1 == << "=", "A", "1", "0", "+", "1" >>

FAA1plus1 == << "=", "A", "A", "1", "+", "1" >>

\* A literal and the formulas that read A10 and AA1
SubTexts == { Lit1, FA10plus1, FAA1plus1 }

MaxSubSteps == 4

InitSub ==
  /\ cells = << >>
  /\ display = [ a \in SubAddrs |-> EmptyText ]
  /\ last = NoRun
  /\ steps = 0
  /\ headerRun = HeaderDone(COLUMNS)
  /\ other = OtherStart(SubAddrs)

\* script.js: a div loses focus with one of SubTexts in it
EditSub ==
  /\ steps < MaxSubSteps
  /\ \E cellId \in SubAddrs, innerText \in SubTexts : evaluateFormula(cellId, innerText)
  /\ UNCHANGED << headerRun, other >>

NextSub == EditSub

SpecSub == InitSub /\ [][NextSub]_vars

(***************************************************************************)
(* script.js with a sum over A1..A3 and the refresh button                 *)
(***************************************************************************)
FSumA1A3 == << "=", "S", "U", "M", "(", "A", "1", ":", "A", "3", ")" >>

\* A literal and the sum of the three cells
RangeTexts == { Lit1, FSumA1A3 }

MaxRangeSteps == 6

\* script.js: a div loses focus with one of RangeTexts in it
EditRange ==
  /\ steps < MaxRangeSteps
  /\ \E cellId \in Addrs, innerText \in RangeTexts : evaluateFormula(cellId, innerText)
  /\ UNCHANGED << headerRun, other >>

\* script.js: the refresh button is clicked
RefreshRange ==
  /\ steps < MaxRangeSteps
  /\ refreshGrid
  /\ UNCHANGED << headerRun, other >>

NextRange == EditRange \/ RefreshRange

SpecRange == Init /\ [][NextRange]_vars

(***************************************************************************)
(* script.js with cells that hold text that is not a number                *)
(***************************************************************************)
LitMixed == << "2", "a", "b" >>

\* A numeral, two texts that are no numerals, a sum, an addition and a call
\* of an unknown function (which leaves "N/A" in its cell)
WordTexts == { Lit1, LitWord, LitMixed, FSumA1A2, FA1plus1, FFooA1A2 }

MaxWordSteps == 3

\* script.js: a div loses focus with one of WordTexts in it
EditWord ==
  /\ steps < MaxWordSteps
  /\ \E cellId \in Addrs, innerText \in WordTexts : evaluateFormula(cellId, innerText)
  /\ UNCHANGED << headerRun, other >>

NextWord == EditWord

SpecWord == Init /\ [][NextWord]_vars

(***************************************************************************)
(* script.js on two pages that are given the same edits, the formulas that *)
(* create cells in another order on the second page                        *)
(***************************************************************************)
\* What the divs show once the handler has written the edited cell's text
ShownAfter(disp, cellId, innerText, rec) ==
  IF rec.formula # EmptyText
    THEN [disp EXCEPT ![cellId] = JsString(rec.value)]
    ELSE [disp EXCEPT ![cellId] = innerText]

\* The record rec committed on cs and the propagation that follows
CommitOn(cs, disp, cellId, innerText, rec) ==
  updateDependentCells(Put(cs, rec), ShownAfter(disp, cellId, innerText, rec), cellId)

\* The second page after the edit, and what the two pages owe each other
OtherAfter(out, owed, step, created) ==
  [ cells |-> out.cells, display |-> out.display, owed |-> owed, step |-> step,
    created |-> created ]

\* evaluateFormula on the second page; owed, step and created are what the
\* two pages owe each other after it
evaluateFormulaOther(cellId, innerText, owed, step, created) ==
  \E rec \in { Committed(other.cells, cellId, innerText) } :
    \E out \in { CommitOn(other.cells, other.display, cellId, innerText, rec) } :
      other' = OtherAfter(out, owed, step, created)

\* A literal and two formulas, one reading the other's cell when they are
\* committed to A2 and A3
OrderTexts == { Lit1, FA1plus1, FA1plusA2 }

IsFormulaText(innerText) == startsWith(EnteredText(innerText), << "=" >>)

MaxOrderSteps == 3

\* An edit of each page: what this page is given (mine), what the second
\* page is given (theirs), and what the pages owe each other after it
Move(mine, theirs, owed, step, created) ==
  [ mine |-> mine, theirs |-> theirs, owed |-> owed, step |-> step, created |-> created ]

\* Two formulas create two cells: this page gets the first while the second
\* page gets the second
MovesApart ==
  { Move(<< a1, t1 >>, << a2, t2 >>, << << a2, t2 >>, << a1, t1 >> >>, "apart", { a1, a2 }) :
      a1 \in { a \in Addrs : ~Has(cells, a) }, t1 \in { x \in OrderTexts : IsFormulaText(x) },
      a2 \in { a \in Addrs : ~Has(cells, a) }, t2 \in { x \in OrderTexts : IsFormulaText(x) } }

\* Each page gets the formula the other page got before
MovesBack == { Move(other.owed[1], other.owed[2], NothingOwed, "back", other.created) }

\* Both pages get the same edit
MovesSame ==
  { Move(<< cellId, innerText >>, << cellId, innerText >>, NothingOwed, "same", other.created) :
      cellId \in Addrs, innerText \in OrderTexts }

\* The edits the two pages can be given next
Moves ==
  IF other.owed # NothingOwed THEN MovesBack
  ELSE { m \in MovesApart : m.mine[1] # m.theirs[1] } \cup MovesSame

\* script.js: a div of each page loses focus
EditBoth ==
  /\ steps < MaxOrderSteps
  /\ \E m \in Moves :
       /\ evaluateFormula(m.mine[1], m.mine[2])
       /\ evaluateFormulaOther(m.theirs[1], m.theirs[2], m.owed, m.step, m.created)
  /\ UNCHANGED headerRun

NextOrder == EditBoth

SpecOrder == Init /\ [][NextOrder]_vars

(***************************************************************************)
(* Vocabulary of the properties                                            *)
(***************************************************************************)
\* The last handler run was an edit (a blur of a div)
Edited == last.op = "edit"

\* The record of the cell the last edit was made to
EditedRecord == Get(cells, last.addr)

\* A decimal numeral without sign or leading zero
IsNumeral(s) ==
  /\ Len(s) >= 1
  /\ \A i \in 1..Len(s) : s[i] \in Digit
  /\ Len(s) > 1 => s[1] # "0"

\* The cell holds a literal that is a numeral
IsNumericLiteral(cs, id) ==
  /\ Has(cs, id)
  /\ Get(cs, id).formula = EmptyText
  /\ Get(cs, id).value.k = "str"
  /\ IsNumeral(Get(cs, id).value.s)

LiteralNumber(cs, id) == ParseDigits(Get(cs, id).value.s)

\* The text "=X+Y"
AddFormula(x, y) == << "=" >> \o x \o << "+" >> \o y

\* F holds "=X+Y", the last edit committed a numeral to X or to Y, and both
\* hold numerals now
PropagationCase(F, X, Y) ==
  /\ Edited
  /\ F # last.addr
  /\ last.addr \in { X, Y }
  /\ Has(last.pre, F)
  /\ Get(last.pre, F).formula = AddFormula(X, Y)
  /\ IsNumericLiteral(cells, X)
  /\ IsNumericLiteral(cells, Y)

(***************************************************************************)
(* C1  Propagation: when F holds "=X+Y" and a numeral is committed to X    *)
(* (or Y) while the other operand holds a numeral, F's stored value is the *)
(* sum of the two numerals and F's displayed text is that sum, although F  *)
(* was not edited.                                                         *)
(***************************************************************************)
C1_Propagation ==
  \A F \in Addrs, X \in Addrs, Y \in Addrs :
    PropagationCase(F, X, Y) =>
      /\ Get(cells, F).value = Num(LiteralNumber(cells, X) + LiteralNumber(cells, Y))
      /\ display[F] = IntToStr(LiteralNumber(cells, X) + LiteralNumber(cells, Y))

\* F evaluated to a number before the edit and to another number after it
C1_Witness ==
  \E F \in Addrs, X \in Addrs, Y \in Addrs :
    /\ PropagationCase(F, X, Y)
    /\ Get(last.pre, F).value.k = "num"
    /\ Get(cells, F).value.k = "num"
    /\ Get(cells, F).value # Get(last.pre, F).value
    /\ last.shown[F] # display[F]

(***************************************************************************)
(* C2  Store invariant: after every completed handler run, every record    *)
(* with a formula holds the result of evaluating the formula against the   *)
(* store as it stands, and the record of the cell just edited with a       *)
(* literal holds the literal exactly as entered.                           *)
(***************************************************************************)
C2_StoreInvariant ==
  \A i \in 1..Len(cells) :
    IF cells[i].formula # EmptyText
      THEN cells[i].value = evaluateExpression(cells, substring(cells[i].formula, 1))
      ELSE (Edited /\ last.addr = cells[i].id) => cells[i].value = Str(last.raw)

(***************************************************************************)
(* C3  Missing reference: committing "=Z99+1" while Z99 was never          *)
(* committed stores and returns 1 (Z99 counted as 0).                      *)
(***************************************************************************)
Z99 == << "Z", "9", "9" >>

C3_MissingReference ==
  (Edited /\ EnteredText(last.raw) = FZ99plus1 /\ ~Has(last.pre, Z99)) =>
    /\ last.ret = Num(1)
    /\ EditedRecord.value = Num(1)

(***************************************************************************)
(* C4  Idempotence.  As claimed: committing the same text to the same cell *)
(* twice in a row leaves the cell with the same value after the second     *)
(* commit as after the first, for every text, self-referencing formulas    *)
(* included.                                                               *)
(***************************************************************************)
C4_Idempotence ==
  (Edited /\ last.repeat) => EditedRecord.value = Get(last.pre, last.addr).value

\* The text is a literal, or a formula that reads neither the edited cell nor
\* a cell whose formula contains the edited cell's label (a cell the edit's
\* propagation re-evaluates)
NoFeedback ==
  LET formula == EnteredText(last.raw)
  IN  startsWith(formula, << "=" >>) =>
        \A r \in ReadsOf(substring(formula, 1)) :
          /\ r # last.addr
          /\ Has(last.pre, r) => ~includes(Get(last.pre, r).formula, last.addr)

(* C4 as amended: committing the same text to the same cell twice in a row *)
(* leaves the cell with the same value after the second commit as after    *)
(* the first, provided the text is a literal or a formula that reads       *)
(* neither its own cell nor a cell whose formula contains its cell's label.*)
C4_IdempotenceNoFeedback ==
  (Edited /\ last.repeat /\ NoFeedback) => EditedRecord.value = Get(last.pre, last.addr).value

\* A formula that reads a formula cell was committed twice in a row
C4_Witness ==
  /\ Edited
  /\ last.repeat
  /\ NoFeedback
  /\ EditedRecord.formula # EmptyText
  /\ EditedRecord.value.k = "num"
  /\ \E r \in ReadsOf(substring(EditedRecord.formula, 1)) :
       Has(cells, r) /\ Get(cells, r).formula # EmptyText

(***************************************************************************)
(* C5  Error isolation (part_000): no edit ends in an uncaught thrown      *)
(* fault, and the propagation of an edit reaches every stored cell whose   *)
(* formula mentions the edited cell.                                       *)
(***************************************************************************)
\* The formula text a record was committed with, under either property name
FormulaText(rec) == IF rec.formula # NoProperty THEN rec.formula ELSE rec.updatedFormula

C5_ErrorIsolation ==
  Edited =>
    /\ ~last.fault
    /\ \A i \in 1..Len(cells) :
         includes(FormulaText(cells[i]), last.addr) =>
           \E k \in 1..Len(last.pass) : last.pass[k] = cells[i].id

(***************************************************************************)
(* Vocabulary of the range properties                                      *)
(***************************************************************************)
\* Rows of the ranges the properties speak of
MaxRow == 3

ColA == << "A" >>

\* The text "=SUM(<col><i>:<col><j>)"
SumFormula(col, i, j) ==
  << "=", "S", "U", "M", "(" >> \o CellId(col, i) \o << ":" >> \o CellId(col, j) \o << ")" >>

ColumnCells(col, i, j) == { CellId(col, r) : r \in i..j }

\* The sum of the numerals held by the cells of ids that are in the store
RECURSIVE SumOfPresent(_, _)
SumOfPresent(cs, ids) ==
  IF ids = { } THEN 0
  ELSE LET id == CHOOSE x \in ids : TRUE
       IN  (IF Has(cs, id) THEN LiteralNumber(cs, id) ELSE 0) + SumOfPresent(cs, ids \ { id })

\* The last edit committed "=SUM(A<i>:A<j>)" to a cell outside the range
SumCase(i, j) ==
  /\ Edited
  /\ i <= j
  /\ EnteredText(last.raw) = SumFormula(ColA, i, j)
  /\ last.addr \notin ColumnCells(ColA, i, j)

(***************************************************************************)
(* C6  Range sum: when every cell of A_i..A_j (i <= j) holds a numeral,    *)
(* committing "=SUM(A_i:A_j)" to another cell stores and returns the sum   *)
(* of those numerals.                                                      *)
(***************************************************************************)
C6_RangeSum ==
  \A i \in 1..MaxRow, j \in 1..MaxRow :
    (SumCase(i, j) /\ \A id \in ColumnCells(ColA, i, j) : IsNumericLiteral(last.pre, id)) =>
      /\ last.ret = Num(SumOfPresent(last.pre, ColumnCells(ColA, i, j)))
      /\ EditedRecord.value = Num(SumOfPresent(last.pre, ColumnCells(ColA, i, j)))

\* A sum of two cells holding different numerals was committed
C6_Witness ==
  \E i \in 1..MaxRow, j \in 1..MaxRow :
    /\ SumCase(i, j)
    /\ i < j
    /\ \A id \in ColumnCells(ColA, i, j) : IsNumericLiteral(last.pre, id)
    /\ LiteralNumber(last.pre, CellId(ColA, i)) # LiteralNumber(last.pre, CellId(ColA, j))
    /\ EditedRecord.value = Num(3)

(***************************************************************************)
(* C7  SUM over a range in which some cells were never committed counts    *)
(* each missing cell as 0: the result is the sum of the numerals present.  *)
(***************************************************************************)
C7_SumMissingAsZero ==
  \A i \in 1..MaxRow, j \in 1..MaxRow :
    ( /\ SumCase(i, j)
      /\ \E id \in ColumnCells(ColA, i, j) : ~Has(last.pre, id)
      /\ \A id \in ColumnCells(ColA, i, j) : Has(last.pre, id) => IsNumericLiteral(last.pre, id) ) =>
      /\ last.ret = Num(SumOfPresent(last.pre, ColumnCells(ColA, i, j)))
      /\ EditedRecord.value = Num(SumOfPresent(last.pre, ColumnCells(ColA, i, j)))

(***************************************************************************)
(* C8  The SUM reducer visits exactly the cells of the inclusive rectangle *)
(* of the column indices startCol..endCol (positions in the generated      *)
(* label sequence) and the rows startRow..endRow, and returns 0 when       *)
(* start > end on either axis.                                             *)
(***************************************************************************)
\* 1-based position of a label in the generated label sequence
ColumnIndex(col) == CHOOSE k \in 1..COLUMNS : columnHeaders[k] = col

Rectangle(r) ==
  { CellId(columnHeaders[k], row) :
      k \in ColumnIndex(r.startCol)..ColumnIndex(r.endCol), row \in r.startRow..r.endRow }

\* The expression of the last edit is one call of SUM over a range
SumCallCase ==
  /\ Edited
  /\ startsWith(EnteredText(last.raw), << "=" >>)
  /\ LET expression == substring(EnteredText(last.raw), 1)
         m == FirstFunctionMatch(expression)
     IN  /\ m.from = 1
         /\ m.to = Len(expression)
         /\ FunctionNameOf(expression) \in SUPPORTED_FUNCTIONS

C8_RectangleVisited ==
  SumCallCase =>
    LET r == RangeOf(substring(EnteredText(last.raw), 1))
    IN  /\ SeqRange(sumRangeIds(r.startCol, r.startRow, r.endCol, r.endRow)) = Rectangle(r)
        /\ (ColumnIndex(r.startCol) > ColumnIndex(r.endCol) \/ r.startRow > r.endRow) =>
             sumRange(last.pre, r.startCol, r.startRow, r.endCol, r.endRow) = Num(0)

(***************************************************************************)
(* C9  Unknown function: committing a formula NAME(ADDR:ADDR) whose NAME   *)
(* is not supported stores and returns "N/A" for that cell, whatever the   *)
(* store holds, and does not throw.                                        *)
(***************************************************************************)
UnknownCallCase ==
  /\ Edited
  /\ startsWith(EnteredText(last.raw), << "=" >>)
  /\ LET expression == substring(EnteredText(last.raw), 1)
         m == FirstFunctionMatch(expression)
     IN  /\ m.from = 1
         /\ m.to = Len(expression)
         /\ FunctionNameOf(expression) \notin SUPPORTED_FUNCTIONS

C10_LiteralPassThrough ==
  (Edited /\ ~startsWith(last.raw, << "=" >>)) =>
    /\ EditedRecord.formula = EmptyText
    /\ EditedRecord.value = Str(last.raw)

(***************************************************************************)
(* Vocabulary of the column labels                                         *)
(***************************************************************************)
\* The number a label denotes as a bijective base-26 numeral: digits A = 1
\* to Z = 26, most significant first
RECURSIVE LabelValue(_)
LabelValue(label) ==
  IF label = << >> THEN 0
  ELSE 26 * LabelValue(SubSeq(label, 1, Len(label) - 1)) + PosIn(UpperSeq, label[Len(label)])

IsLabel(label) == Len(label) >= 1 /\ \A i \in 1..Len(label) : label[i] \in Upper

RECURSIVE Pow26(_)
Pow26(n) == IF n = 0 THEN 1 ELSE 26 * Pow26(n - 1)

\* The labels the property names
NamedLabels ==
  { << 1, << "A" >> >>, << 26, << "Z" >> >>, << 27, << "A", "A" >> >>,
    << 28, << "A", "B" >> >>, << 52, << "A", "Z" >> >> }

(***************************************************************************)
(* C12  Column labels: getColumnHeaders(n) returns n labels, pairwise      *)
(* distinct, the k-th being the bijective base-26 numeral of k (1 -> A,    *)
(* 26 -> Z, 27 -> AA, 28 -> AB, 52 -> AZ); and the inner loop terminates:  *)
(* while it runs, the letters made so far are the low digits of that       *)
(* numeral and quotient + 1 is what is left of it, so that it makes no     *)
(* more letters than the numeral has.                                      *)
(***************************************************************************)
C12_ColumnLabels ==
  LET hs == headerRun.columnHeaders
  IN  /\ \A e \in NamedLabels : Len(hs) >= e[1] => hs[e[1]] = e[2]
      /\ Len(hs) >= 1 => IsLabel(hs[Len(hs)]) /\ LabelValue(hs[Len(hs)]) = Len(hs)
      /\ headerRun.pc = "inner" =>
           /\ headerRun.quotient >= -1
           /\ (headerRun.quotient + 1) * Pow26(Len(headerRun.header)) + LabelValue(headerRun.header)
                = headerRun.columnCount
      /\ headerRun.pc = "returned" =>
           /\ Len(hs) = headerRun.count
           /\ \A k \in 1..Len(hs) : IsLabel(hs[k]) /\ LabelValue(hs[k]) = k
           /\ \A j \in 1..Len(hs), k \in 1..Len(hs) : j # k => hs[j] # hs[k]

\* getColumnHeaders(52) has returned, with labels of one and of two letters
C12_Witness ==
  /\ headerRun.pc = "returned"
  /\ headerRun.count = 52
  /\ headerRun.columnHeaders[26] = << "Z" >>
  /\ headerRun.columnHeaders[52] = << "A", "Z" >>

(***************************************************************************)
(* C11  Arithmetic with references: when X and Y hold numerals, committing *)
(* "=X+Y" to a third cell stores, returns and shows the sum of the two     *)
(* numerals, and stores the formula text.                                  *)
(***************************************************************************)
\* The last edit committed "=X+Y" to a cell other than X and Y, both holding
\* numerals
AddCase(X, Y) ==
  /\ Edited
  /\ EnteredText(last.raw) = AddFormula(X, Y)
  /\ last.addr \notin { X, Y }
  /\ IsNumericLiteral(last.pre, X)
  /\ IsNumericLiteral(last.pre, Y)

C11_ArithmeticWithReferences ==
  \A X \in Addrs, Y \in Addrs :
    AddCase(X, Y) =>
      LET sum == LiteralNumber(last.pre, X) + LiteralNumber(last.pre, Y)
      IN  /\ last.ret = Num(sum)
          /\ EditedRecord = Record(last.addr, AddFormula(X, Y), Num(sum))
          /\ display[last.addr] = IntToStr(sum)

\* "=X+Y" was committed over two cells holding different numerals
C11_Witness ==
  \E X \in Addrs, Y \in Addrs :
    /\ AddCase(X, Y)
    /\ X # Y
    /\ LiteralNumber(last.pre, X) # LiteralNumber(last.pre, Y)
    /\ EditedRecord.value = Num(3)

(***************************************************************************)
(* C13  Self-reference: when X holds the number v, committing "=X+1" to X  *)
(* evaluates the formula once, against the record X had before the commit: *)
(* X is not re-evaluated by the propagation of its own commit, and X's     *)
(* stored value is v + 1 when the commit has completed.                    *)
(***************************************************************************)
\* The cell holds a number: the result of a formula, or a literal numeral
HoldsNumber(cs, id) ==
  /\ Has(cs, id)
  /\ \/ Get(cs, id).value.k = "num"
     \/ Get(cs, id).value.k = "str" /\ IsNumeral(Get(cs, id).value.s)

NumberHeld(cs, id) ==
  IF Get(cs, id).value.k = "num" THEN Get(cs, id).value.n ELSE ParseDigits(Get(cs, id).value.s)

One == << "1" >>

C13_SelfReference ==
  (Edited /\ EnteredText(last.raw) = AddFormula(last.addr, One) /\ HoldsNumber(last.pre, last.addr)) =>
    /\ last.ret = Num(NumberHeld(last.pre, last.addr) + 1)
    /\ last.addr \notin SeqRange(last.pass)
    /\ EditedRecord.value = Num(NumberHeld(last.pre, last.addr) + 1)

(***************************************************************************)
(* C14  Single-level fan-out: an edit of A changes no record and no        *)
(* displayed text but those of A and of the stored cells whose formula     *)
(* text contains A's label, and creates no record but A's; when C's        *)
(* formula reads B, B's formula reads A and C's formula text does not      *)
(* contain A's label, the edit re-evaluates B and leaves C's record and    *)
(* displayed text as they were.                                            *)
(***************************************************************************)
\* The cells the formula of the record reads
Reads(rec) == IF rec.formula = EmptyText THEN { } ELSE ReadsOf(substring(rec.formula, 1))

\* Before the last edit, C's formula read B, B's formula read the edited
\* cell, and C's formula text did not contain the edited cell's label
ChainCase(B, C) ==
  /\ Edited
  /\ Has(last.pre, B)
  /\ Has(last.pre, C)
  /\ B # last.addr
  /\ C # last.addr
  /\ B \in Reads(Get(last.pre, C))
  /\ last.addr \in Reads(Get(last.pre, B))
  /\ ~includes(Get(last.pre, C).formula, last.addr)

C14_SingleLevelFanOut ==
  Edited =>
    /\ \A i \in 1..Len(last.pre) :
         (last.pre[i].id # last.addr /\ ~includes(last.pre[i].formula, last.addr)) =>
           /\ Get(cells, last.pre[i].id) = last.pre[i]
           /\ display[last.pre[i].id] = last.shown[last.pre[i].id]
    /\ \A i \in 1..Len(cells) : Has(last.pre, cells[i].id) \/ cells[i].id = last.addr
    /\ \A B \in Addrs, C \in Addrs :
         ChainCase(B, C) =>
           /\ B \in SeqRange(last.pass)
           /\ Get(cells, C) = Get(last.pre, C)
           /\ display[C] = last.shown[C]

\* B was given a new value by the edit, and C, which reads B, was left with a
\* value that is no longer what its formula evaluates to
C14_Witness ==
  \E B \in Addrs, C \in Addrs :
    /\ ChainCase(B, C)
    /\ B # C
    /\ Get(cells, B).value # Get(last.pre, B).value
    /\ Get(cells, C).value # evaluateExpression(cells, substring(Get(cells, C).formula, 1))

(***************************************************************************)
(* C17  Termination: every edit completes without a fault, and its         *)
(* propagation pass re-evaluates each stored cell at most once, whatever   *)
(* the store holds, circular and self-referencing formulas included.       *)
(***************************************************************************)
C17_Termination ==
  Edited =>
    /\ ~last.fault
    /\ \A j \in 1..Len(last.pass), k \in 1..Len(last.pass) : j # k => last.pass[j] # last.pass[k]
    /\ \A k \in 1..Len(last.pass) : Has(cells, last.pass[k])
    /\ Len(last.pass) <= Len(cells)

\* The edit was made over two cells whose formulas contain each other's
\* label, one of them containing its own too, and re-evaluated both
C17_Witness ==
  /\ Edited
  /\ Len(last.pass) >= 2
  /\ \E X \in Addrs, Y \in Addrs :
       /\ X # Y
       /\ Has(cells, X)
       /\ Has(cells, Y)
       /\ includes(Get(cells, X).formula, Y)
       /\ includes(Get(cells, Y).formula, X)
       /\ includes(Get(cells, X).formula, X)
       /\ X \in SeqRange(last.pass)
       /\ Y \in SeqRange(last.pass)

(***************************************************************************)
(* C15  Substring dependency matching: an edit of A1 (of any cell)         *)
(* re-evaluates, overwrites and shows again every stored cell whose        *)
(* formula text contains the characters of the edited label, the cells     *)
(* whose formula mentions only A10 or AA1 included.                        *)
(***************************************************************************)
\* The cell re-evaluated last by the pass of the last edit
LastOfPass == last.pass[Len(last.pass)]

C15_SubstringMatching ==
  Edited =>
    /\ \A i \in 1..Len(cells) :
         includes(cells[i].formula, last.addr) =>
           /\ cells[i].id \in SeqRange(last.pass)
           /\ display[cells[i].id] = JsString(cells[i].value)
    /\ (last.pass # << >> /\ LastOfPass \notin Reads(Get(cells, LastOfPass))) =>
         Get(cells, LastOfPass).value
           = evaluateExpression(cells, substring(Get(cells, LastOfPass).formula, 1))

\* An edit of A1 gave a new value and a new text to a cell whose formula
\* reads A10 or AA1 and not A1
C15_Witness ==
  /\ Edited
  /\ last.addr = A1
  /\ \E i \in 1..Len(last.pre) :
       LET rec == last.pre[i]
       IN  /\ rec.formula \in { FA10plus1, FAA1plus1 }
           /\ A1 \notin Reads(rec)
           /\ rec.id \in SeqRange(last.pass)
           /\ Get(cells, rec.id).value # rec.value
           /\ display[rec.id] # last.shown[rec.id]

(***************************************************************************)
(* C16  Refresh: a refresh empties the displayed text of every cell and    *)
(* leaves every record as it was; and when, after a refresh, an edit is    *)
(* made to a cell that a stored formula cell reads, that formula cell,     *)
(* whose record still holds its value, shows a non-empty text again.       *)
(***************************************************************************)
\* F is a formula cell that reads the cell of the last edit, and that edit
\* found F blank on the page while F's record held a value: a page refreshed
ResurfaceCase(F) ==
  /\ Edited
  /\ F # last.addr
  /\ Has(last.pre, F)
  /\ last.addr \in Reads(Get(last.pre, F))
  /\ Get(last.pre, F).value # Str(EmptyText)
  /\ last.shown[F] = EmptyText

C16_Refresh ==
  /\ last.op = "refresh" =>
       /\ \A a \in DOMAIN display : display[a] = EmptyText
       /\ cells = last.pre
  /\ \A F \in Addrs : ResurfaceCase(F) => display[F] # EmptyText

(***************************************************************************)
(* C18  Failure sentinels: a SUM over a range in which a cell holds text   *)
(* that is not a number ("N/A" included) stores and returns the empty      *)
(* text; an addition that reads a cell holding such text stores and        *)
(* returns "N/A"; neither ends in a fault.                                 *)
(***************************************************************************)
\* A text, not empty, that is not a numeral
NonNumericText(v) == v.k = "str" /\ v.s # EmptyText /\ ~IsNumeral(v.s)

HoldsNonNumericText(cs, id) == Has(cs, id) /\ NonNumericText(Get(cs, id).value)

C18_FailureSentinels ==
  /\ \A i \in 1..MaxRow, j \in 1..MaxRow :
       (SumCase(i, j) /\ \E id \in ColumnCells(ColA, i, j) : HoldsNonNumericText(last.pre, id)) =>
         /\ last.ret = Str(EmptyText)
         /\ EditedRecord.value = Str(EmptyText)
         /\ ~last.fault
  /\ \A X \in Addrs :
       ( /\ Edited
         /\ EnteredText(last.raw) = AddFormula(X, One)
         /\ X # last.addr
         /\ HoldsNonNumericText(last.pre, X) ) =>
         /\ last.ret = Str(NA)
         /\ EditedRecord.value = Str(NA)
         /\ ~last.fault

(***************************************************************************)
(* C19  Order independence of propagation: when two pages were given the   *)
(* same formulas for two cells that depend on A, creating the two cells in *)
(* different orders, and were then given the same value for A, they hold   *)
(* the same value in every cell.                                           *)
(***************************************************************************)
\* The last edit gave both pages a literal for a cell whose label is in the
\* formula of each of the two cells they created in different orders
SameValueCase ==
  /\ Edited
  /\ other.step = "same"
  /\ ~IsFormulaText(last.raw)
  /\ other.created # { }
  /\ \A c \in other.created :
       /\ c # last.addr
       /\ includes(Get(last.pre, c).formula, last.addr)

C19_OrderIndependence ==
  SameValueCase => \A a \in Addrs : ValueOf(cells, a) = ValueOf(other.cells, a)

=============================================================================
